---------------------------- MODULE Spec2Model ----------------------------
(***************************************************************************)
(* A model of the WebSocket relay of src/src/relay.rs.                     *)
(*                                                                         *)
(* One session (Server::handle_connection + Client) per peer handle.  The  *)
(* registry (Server.rooms) is guarded by one reader-writer lock; every     *)
(* handler acquires it, runs its critical section, drops it and only then  *)
(* writes frames to peer sinks, one sink write per step.                   *)
(***************************************************************************)
EXTENDS Integers, Sequences, FiniteSets

\* ---------------------------------------------------------------- bounds
\* The connections accepted, each with its own session and peer handle.
NumPeers == 3
\* The identifiers Uuid::new_v4() draws from (a draw may collide).
NumRoomIds == 2
\* The sessions that may be inside a handler (between taking the registry
\* lock and returning) at the same time.
MaxInFlight == 2
\* The byte that follows the address byte in the binary frames sent.
PayloadByte == 170

\* ------------------------------------------------------ program constants
MIN_ROOM_SIZE == 0
MAX_ROOM_SIZE == 255
DEFAULT_ROOM_SIZE == 2
U8_MAX == 255

Peers == 1..NumPeers
\* The identifiers Uuid::new_v4() can return.
RoomIds == 1..NumRoomIds

\* Option<T>: None is the empty sequence, Some(x) the one-element sequence.
None == <<>>
Some(x) == <<x>>
Unwrap(o) == o[1]
UnwrapOr(o, d) == IF o = None THEN d ELSE o[1]

\* ------------------------------------------------------------- packets
\* RequestPacket, plus the two inbound events that are no request.
CreateRequest(size) == [type |-> "create", size |-> size]
JoinRequest(id) == [type |-> "join", id |-> id]
LeaveRequest == [type |-> "leave"]
BinaryMessage(data) == [type |-> "binary", data |-> data]
\* A text frame that does not parse, or a frame neither text nor binary.
OtherMessage == [type |-> "other"]
\* receiver.next() returned None or Err: the loop ends, handle_close runs.
CloseEvent == [type |-> "close"]
NoMessage == [type |-> "none"]

\* ResponsePacket (the size field of Join is skipped when None).
JoinPacket(size) == [type |-> "join", size |-> size]
CreatePacket(id) == [type |-> "create", id |-> id]
LeavePacket(index) == [type |-> "leave", index |-> index]
ErrorPacket(message) == [type |-> "error", message |-> message]

ErrSize == "The room size is not valid"
ErrExists == "A room with that identifier already exists."
ErrNoRoom == "The room does not exist."
ErrFull == "The room is full."

\* ------------------------------------------------------------- inputs
SizeInputs == {None, Some(0), Some(MAX_ROOM_SIZE - 1), Some(MAX_ROOM_SIZE)}
DestinationBytes == (0..NumPeers) \cup {U8_MAX}
DataInputs == {<<>>} \cup {<<d, PayloadByte>> : d \in DestinationBytes}
Requests ==
    {CreateRequest(z) : z \in SizeInputs}
        \cup {JoinRequest(r) : r \in RoomIds}
        \cup {LeaveRequest, OtherMessage}
        \cup {BinaryMessage(d) : d \in DataInputs}

\* --------------------------------------------------------------- state
VARIABLES
    rooms,      \* Server.rooms: room id -> [size, senders]
    lock,       \* the RwLock around Server: [writer: Option, readers: set,
                \* queue: the sessions waiting for a guard, first come first]
    room_id,    \* Client.room_id of each session
    pc,         \* where each session is
    msg,        \* the inbound message a session is handling
    futures     \* the sink writes of the current handler not yet completed

vars == <<rooms, lock, room_id, pc, msg, futures>>

\* ------------------------------------------------------------- helpers
\* Mutant: the requested size is ignored.
RoomNewDefault(size) == [size |-> DEFAULT_ROOM_SIZE, senders |-> <<>>]

\* Room::new(size) followed by room.senders.push(sender)
RoomNew(size) == [size |-> size, senders |-> <<>>]
Push(room, sender) == [room EXCEPT !.senders = Append(@, sender)]

\* senders.iter().any(|x| Arc::ptr_eq(x, sender))
Contains(senders, sender) == \E i \in 1..Len(senders) : senders[i] = sender

\* Mutant: the membership scan is left out.
InAnyRoomSkipped(self) == FALSE

\* Mutant: only the first handle of each room is compared.
InAnyRoomOwnerOnly(self) ==
    \E r \in DOMAIN rooms :
        Len(rooms[r].senders) > 0 /\ rooms[r].senders[1] = self

\* server.rooms.iter().any(|(_, room)| room.senders.iter().any(ptr_eq self))
InAnyRoom(self) == \E r \in DOMAIN rooms : Contains(rooms[r].senders, self)

\* Mutant: the handle is never found.
PositionNotFound(senders, sender) == None

\* senders.iter().position(|x| Arc::ptr_eq(x, sender)), zero-based
Position(senders, sender) ==
    IF Contains(senders, sender)
    THEN Some((CHOOSE i \in 1..Len(senders) :
                  /\ senders[i] = sender
                  /\ \A j \in 1..(i - 1) : senders[j] # sender) - 1)
    ELSE None

\* Vec::remove(index), zero-based
Remove(senders, index) ==
    SubSeq(senders, 1, index) \o SubSeq(senders, index + 2, Len(senders))

\* HashMap::insert and HashMap::remove
MapInsert(map, key, value) ==
    [k \in DOMAIN map \cup {key} |-> IF k = key THEN value ELSE map[k]]
MapRemove(map, key) == [k \in DOMAIN map \ {key} |-> map[k]]

\* Mutant: > in place of >=, so that 255 is accepted.
SizeInvalidAbove(size) == size = MIN_ROOM_SIZE \/ size > MAX_ROOM_SIZE

\* Mutant: the test against MIN_ROOM_SIZE is left out, so that 0 is accepted.
SizeInvalidNoMin(size) == size >= MAX_ROOM_SIZE

\* size == MIN_ROOM_SIZE || size >= MAX_ROOM_SIZE
SizeInvalid(size) == size = MIN_ROOM_SIZE \/ size >= MAX_ROOM_SIZE

\* Mutant: > in place of >=, so that a full room takes one more peer.
RoomFullAbove(room) == Len(room.senders) > room.size

\* room.senders.len() >= room.size
RoomFull(room) == Len(room.senders) >= room.size

\* u8::try_from(index): Err (None) above 255
U8TryFrom(index) == IF index <= U8_MAX THEN Some(index) ELSE None

\* Mutant: the address byte is left as the client sent it.
RewriteNothing(data, source) == data

\* data[0] = source
Rewrite(data, source) == [data EXCEPT ![1] = source]

\* One future per sink write: the sink and the frame.
Future(to, frame) == [to |-> to, frame |-> frame]

\* Mutant: every peer of the snapshot is sent the joiner's index.
JoinFuturesAllSized(self, senders, size) ==
    [i \in 1..Len(senders) |-> [to |-> senders[i],
                                frame |-> [type |-> "join", size |-> size]]]

\* The join notifications, one per sender of the snapshot.
JoinFutures(self, senders, size) ==
    [i \in 1..Len(senders) |->
        IF senders[i] = self
        THEN Future(senders[i], JoinPacket(size))
        ELSE Future(senders[i], JoinPacket(None))]

\* Mutant: the notification carries the number of peers left, not the index.
LeaveFuturesCount(senders, index) ==
    [i \in 1..Len(senders) |-> [to |-> senders[i],
                                frame |-> [type |-> "leave",
                                           index |-> Len(senders)]]]

\* The leave notifications, one per sender of the snapshot.
LeaveFutures(senders, index) ==
    [i \in 1..Len(senders) |-> Future(senders[i], LeavePacket(index))]

\* Mutant: the sender is not skipped.
BroadcastFuturesAll(self, senders, data) ==
    [i \in 1..Len(senders) |-> [to |-> senders[i],
                                frame |-> [type |-> "binary", data |-> data]]]

\* The broadcast copies: the snapshot without the sender itself.
BroadcastFutures(self, senders, data) ==
    LET others == SelectSeq(senders, LAMBDA x : x # self)
    IN  [i \in 1..Len(others) |-> Future(others[i], BinaryMessage(data))]

\* Mutant: only a write guard is released.
UnlockedWriterOnly(self) ==
    [lock EXCEPT !.writer = IF @ = Some(self) THEN None ELSE @]

\* Mutant: the guard is kept across the sink writes.
UnlockedKept(self) == lock

\* Mutant: every destination that is no index is taken for the broadcast
\* address.
DeliveriesElseAll(self, senders, destination, data) ==
    IF destination < Len(senders)
    THEN <<[to |-> senders[destination + 1],
            frame |-> [type |-> "binary", data |-> data]]>>
    ELSE BroadcastFutures(self, senders, data)

\* The sends of a binary frame: to the peer at index destination, to every
\* other peer when destination is u8::MAX, to nobody otherwise.
Deliveries(self, senders, destination, data) ==
    IF destination < Len(senders)
    THEN <<Future(senders[destination + 1], BinaryMessage(data))>>
    ELSE IF destination = U8_MAX
    THEN BroadcastFutures(self, senders, data)
    ELSE <<>>

\* drop(server) / the guard going out of scope
Unlocked(self) ==
    [lock EXCEPT !.writer = IF @ = Some(self) THEN None ELSE @,
                 !.readers = @ \ {self}]

\* Mutant: the handler returns without awaiting its sink writes.
AfterLockDetached(self, f) ==
    IF msg[self].type = "close" THEN "closed" ELSE "read"

\* Where a handler is once its guard is dropped and f are the sink writes
\* left to do: writing, or returned (to receiver.next(), or out of
\* handle_connection after handle_close).
AfterLock(self, f) ==
    IF f # <<>> THEN "send"
    ELSE IF msg[self].type = "close" THEN "closed" ELSE "read"

\* --------------------------------------------------------------- Init
Init ==
    /\ rooms = <<>>
    /\ lock = [writer |-> None, readers |-> {}, queue |-> <<>>]
    /\ room_id = [s \in Peers |-> None]
    /\ pc = [s \in Peers |-> "read"]
    /\ msg = [s \in Peers |-> NoMessage]
    /\ futures = [s \in Peers |-> <<>>]

\* ------------------------------------------------------------- actions
\* Mutant: a guard is given out while a writer holds one.
CanLockBesideWriter(m) == m.type # "binary" => lock.readers = {}

\* server.write().await, or server.read().await for a binary frame
CanLock(m) ==
    /\ lock.writer = None
    /\ m.type # "binary" => lock.readers = {}
Locked(self, m) ==
    IF m.type = "binary"
    THEN [lock EXCEPT !.readers = @ \cup {self}]
    ELSE [lock EXCEPT !.writer = Some(self)]

\* The sessions that are inside a handler, and the bound on how many are.
InFlight == {s \in Peers : pc[s] \in {"crit", "joined", "send"}}
MayStart == Cardinality(InFlight) < MaxInFlight

\* The inbound message is consumed once the handler has returned.
Consumed(self) ==
    [msg EXCEPT ![self] = IF pc'[self] \in {"read", "closed"}
                          THEN NoMessage ELSE @]

\* receiver.next() yields a message and handle_message takes the registry
\* lock for it (a session waiting for the lock with its message in hand
\* behaves as one whose message arrives when the lock is free).  A message
\* that is neither a parsable request nor binary returns at once.
Receive(self) ==
    /\ pc[self] = "read"
    /\ MayStart
    /\ \E m \in Requests :
        IF m.type = "other"
        THEN UNCHANGED <<pc, msg, lock>>
        ELSE /\ CanLock(m)
             /\ msg' = [msg EXCEPT ![self] = m]
             /\ pc' = [pc EXCEPT ![self] = "crit"]
             /\ lock' = Locked(self, m)
    /\ UNCHANGED <<rooms, room_id, futures>>

\* receiver.next() yields None or Err: the loop ends and handle_close runs
\* handle_leave_room, which takes the write lock.
Disconnect(self) ==
    /\ pc[self] = "read"
    /\ MayStart
    /\ CanLock(CloseEvent)
    /\ msg' = [msg EXCEPT ![self] = CloseEvent]
    /\ pc' = [pc EXCEPT ![self] = "crit"]
    /\ lock' = Locked(self, CloseEvent)
    /\ UNCHANGED <<rooms, room_id, futures>>

\* return: the guard is dropped and nothing is sent
ReturnSilently(self) ==
    /\ pc' = [pc EXCEPT ![self] = AfterLock(self, <<>>)]
    /\ futures' = futures

\* drop(server); return self.send_error_packet(&self.sender, message).await
ReturnError(self, message) ==
    /\ futures' = [futures EXCEPT ![self] =
                     <<Future(self, ErrorPacket(message))>>]
    /\ pc' = [pc EXCEPT ![self] = "send"]

\* Client::handle_create_room, from the write guard to drop(server)
HandleCreateRoom(self) ==
    /\ pc[self] = "crit"
    /\ msg[self].type = "create"
    /\ lock' = Unlocked(self)
    /\ LET size == UnwrapOr(msg[self].size, DEFAULT_ROOM_SIZE) IN
       IF InAnyRoom(self)
       THEN /\ ReturnSilently(self)
            /\ UNCHANGED <<rooms, room_id>>
       ELSE IF SizeInvalid(size)
       THEN /\ ReturnError(self, ErrSize)
            /\ UNCHANGED <<rooms, room_id>>
       ELSE \E id \in RoomIds :
            IF id \in DOMAIN rooms
            THEN /\ ReturnError(self, ErrExists)
                 /\ UNCHANGED <<rooms, room_id>>
            ELSE /\ rooms' = MapInsert(rooms, id, Push(RoomNew(size), self))
                 /\ room_id' = [room_id EXCEPT ![self] = Some(id)]
                 /\ futures' = [futures EXCEPT ![self] =
                                  <<Future(self, CreatePacket(id))>>]
                 /\ pc' = [pc EXCEPT ![self] = "send"]
    /\ msg' = Consumed(self)

\* Client::handle_join_room, from the write guard to drop(server).  The
\* futures are built from the locals senders and size taken here; room_id is
\* assigned after the guard is dropped (SetRoomId).
HandleJoinRoom(self) ==
    /\ pc[self] = "crit"
    /\ msg[self].type = "join"
    /\ lock' = Unlocked(self)
    /\ room_id' = room_id
    /\ LET id == msg[self].id IN
       IF InAnyRoom(self)
       THEN /\ ReturnSilently(self)
            /\ UNCHANGED rooms
       ELSE IF id \notin DOMAIN rooms
       THEN /\ ReturnError(self, ErrNoRoom)
            /\ UNCHANGED rooms
       ELSE IF RoomFull(rooms[id])
       THEN /\ ReturnError(self, ErrFull)
            /\ UNCHANGED rooms
       ELSE LET room == Push(rooms[id], self)
                senders == room.senders
                size == Some(Len(room.senders) - 1)
            IN  /\ rooms' = [rooms EXCEPT ![id] = room]
                /\ futures' = [futures EXCEPT ![self] =
                                 JoinFutures(self, senders, size)]
                /\ pc' = [pc EXCEPT ![self] = "joined"]
    /\ msg' = Consumed(self)

\* self.room_id = Some(room_id), after drop(server) in handle_join_room
SetRoomId(self) ==
    /\ pc[self] = "joined"
    /\ room_id' = [room_id EXCEPT ![self] = Some(msg[self].id)]
    /\ pc' = [pc EXCEPT ![self] = "send"]
    /\ UNCHANGED <<rooms, lock, msg, futures>>

\* Client::handle_leave_room (a leave request or handle_close), from the
\* write guard to drop(server)
HandleLeaveRoom(self) ==
    /\ pc[self] = "crit"
    /\ msg[self].type \in {"leave", "close"}
    /\ lock' = Unlocked(self)
    /\ IF room_id[self] = None
       THEN /\ ReturnSilently(self)
            /\ UNCHANGED <<rooms, room_id>>
       ELSE IF Unwrap(room_id[self]) \notin DOMAIN rooms
       THEN /\ ReturnSilently(self)
            /\ UNCHANGED <<rooms, room_id>>
       ELSE LET id == Unwrap(room_id[self])
                found == Position(rooms[id].senders, self)
            IN
            IF found = None
            THEN /\ ReturnSilently(self)
                 /\ UNCHANGED <<rooms, room_id>>
            ELSE LET index == Unwrap(found)
                     senders == Remove(rooms[id].senders, index)
                     removed == [rooms EXCEPT ![id].senders = senders]
                 IN  /\ rooms' = IF senders = <<>>
                                 THEN MapRemove(removed, id)
                                 ELSE removed
                     /\ room_id' = [room_id EXCEPT ![self] = None]
                     /\ futures' = [futures EXCEPT ![self] =
                                      LeaveFutures(senders, index)]
                     /\ pc' = [pc EXCEPT ![self] =
                                 AfterLock(self, senders)]
    /\ msg' = Consumed(self)

\* Client::handle_message for a binary frame, from the read guard to the
\* point where it is dropped
HandleBinary(self) ==
    /\ pc[self] = "crit"
    /\ msg[self].type = "binary"
    /\ lock' = Unlocked(self)
    /\ UNCHANGED <<rooms, room_id>>
    /\ IF room_id[self] = None
       THEN ReturnSilently(self)
       ELSE IF Unwrap(room_id[self]) \notin DOMAIN rooms
       THEN ReturnSilently(self)
       ELSE LET room == rooms[Unwrap(room_id[self])]
                found == Position(room.senders, self)
                data == msg[self].data
            IN
            IF found = None \/ data = <<>>
            THEN ReturnSilently(self)
            ELSE IF U8TryFrom(Unwrap(found)) = None
            THEN \* unwrap() panics: the task dies, its guard is dropped
                 /\ pc' = [pc EXCEPT ![self] = "panicked"]
                 /\ futures' = futures
            ELSE LET source == Unwrap(U8TryFrom(Unwrap(found)))
                     destination == data[1]
                     rewritten == Rewrite(data, source)
                     f == Deliveries(self, room.senders, destination,
                                     rewritten)
                 IN  /\ futures' = [futures EXCEPT ![self] = f]
                     /\ pc' = [pc EXCEPT ![self] = AfterLock(self, f)]
    /\ msg' = Consumed(self)

\* Mutant: a failed write takes the peer behind the sink out of its room.
SendResultEvicts(registry, to, ok) ==
    IF ok THEN registry
    ELSE LET kept == [r \in DOMAIN registry |->
                        [registry[r] EXCEPT
                           !.senders = SelectSeq(@, LAMBDA x : x # to)]]
         IN  [r \in {x \in DOMAIN kept : kept[x].senders # <<>>} |-> kept[r]]

\* The registry after sender.send(message).await returned Ok (ok) or Err:
\* the error is printed and nothing else is done with it.
SendResult(registry, to, ok) == registry

\* Mutant: the first failed write abandons the writes still pending.
JoinAllFailFast(pending, index, ok) ==
    IF ok THEN Remove(pending, index) ELSE <<>>

\* join_all(futures) once the future at index has completed with outcome
\* ok: the others stay pending whatever the outcome.
JoinAll(pending, index, ok) == Remove(pending, index)

\* Client::send: one pending future of the handler (join_all runs them
\* concurrently, so any of them may complete next) locks its sink and writes
\* its frame; the write succeeds or fails.  After the last one the handler
\* returns.
Send(self) ==
    /\ pc[self] = "send"
    /\ \E i \in 1..Len(futures[self]) : \E ok \in BOOLEAN :
        LET rest == JoinAll(futures[self], i - 1, ok) IN
        /\ futures' = [futures EXCEPT ![self] = rest]
        /\ pc' = [pc EXCEPT ![self] = AfterLock(self, rest)]
        /\ rooms' = SendResult(rooms, futures[self][i].to, ok)
    /\ msg' = Consumed(self)
    /\ UNCHANGED <<lock, room_id>>

Next ==
    \E self \in Peers :
        \/ Receive(self)
        \/ Disconnect(self)
        \/ HandleCreateRoom(self)
        \/ HandleJoinRoom(self)
        \/ SetRoomId(self)
        \/ HandleLeaveRoom(self)
        \/ HandleBinary(self)
        \/ Send(self)

Spec == Init /\ [][Next]_vars

\* ------------------------------------------- one sink that never drains
\* The same sessions with one peer whose sink never completes a write
\* (sender.send(message).await stays pending), and with the wait for the
\* registry lock made a state of its own: a session that has its inbound
\* message in hand is at "wait" until server.write().await or
\* server.read().await returns.
SlowPeer == NumPeers

\* The requests received here: the room operations, and a broadcast as the
\* one frame handled under the read guard.
RoomRequests ==
    {CreateRequest(None), LeaveRequest, BinaryMessage(<<U8_MAX, PayloadByte>>)}
        \cup {JoinRequest(r) : r \in RoomIds}

\* server.write() / server.read() is called: the session joins the queue of
\* the RwLock
Queued(self) == [lock EXCEPT !.queue = Append(@, self)]

\* receiver.next() yields a request or a binary frame
Take(self) ==
    /\ pc[self] = "read"
    /\ \E m \in RoomRequests :
          msg' = [msg EXCEPT ![self] = m]
    /\ pc' = [pc EXCEPT ![self] = "wait"]
    /\ lock' = Queued(self)
    /\ UNCHANGED <<rooms, room_id, futures>>

\* receiver.next() yields None or Err: handle_close is entered
Hangup(self) ==
    /\ pc[self] = "read"
    /\ msg' = [msg EXCEPT ![self] = CloseEvent]
    /\ pc' = [pc EXCEPT ![self] = "wait"]
    /\ lock' = Queued(self)
    /\ UNCHANGED <<rooms, room_id, futures>>

\* server.write().await or server.read().await returns the guard.  tokio's
\* RwLock serves its waiters first come, first served: a guard goes to the
\* session at the head of the queue, once it can be given out.
Acquire(self) ==
    /\ pc[self] = "wait"
    /\ lock.queue # <<>>
    /\ Head(lock.queue) = self
    /\ CanLock(msg[self])
    /\ lock' = [Locked(self, msg[self]) EXCEPT !.queue = Tail(@)]
    /\ pc' = [pc EXCEPT ![self] = "crit"]
    /\ UNCHANGED <<rooms, room_id, msg, futures>>

\* A handler's critical section, whichever handler the message selects.
Handle(self) ==
    \/ HandleCreateRoom(self)
    \/ HandleJoinRoom(self)
    \/ HandleLeaveRoom(self)
    \/ HandleBinary(self)

\* Client::send to a sink that drains; a write to the slow peer's sink stays
\* pending for ever.
SendDraining(self) ==
    /\ Send(self)
    /\ \E i \in 1..Len(futures[self]) :
          /\ futures[self][i].to # SlowPeer
          /\ futures'[self] = Remove(futures[self], i - 1)

SlowNext ==
    \E self \in Peers :
        \/ Take(self)
        \/ Hangup(self)
        \/ Acquire(self)
        \/ Handle(self)
        \/ SetRoomId(self)
        \/ SendDraining(self)

\* The runtime polls every task that can make progress, and the RwLock hands
\* the guard to its waiters in turn.
SlowSpec ==
    /\ Init
    /\ [][SlowNext]_vars
    /\ \A self \in Peers :
          /\ WF_vars(Handle(self))
          /\ WF_vars(Acquire(self))

\* ------------------------------------------- every sink write completes
\* The sessions with the wait for the registry lock as a state of its own,
\* as above, and with every sink write completing or failing in the end.
\* The sessions that have a message in hand or are inside a handler, and the
\* bound on how many are.
Busy == {s \in Peers : pc[s] \in {"wait", "crit", "joined", "send"}}
MayTake == Cardinality(Busy) < MaxInFlight

FairNext ==
    \E self \in Peers :
        \/ MayTake /\ Take(self)
        \/ MayTake /\ Hangup(self)
        \/ Acquire(self)
        \/ Handle(self)
        \/ SetRoomId(self)
        \/ Send(self)

FairSpec ==
    /\ Init
    /\ [][FairNext]_vars
    /\ \A self \in Peers :
          WF_vars(Acquire(self) \/ Handle(self) \/ SetRoomId(self)
                     \/ Send(self))

\* ------------------------------------------------- one room, any size
\* The registry alone, under the requests of as many connections as a room
\* takes: one room is created with any requested size, connections join it
\* one after the other until it is full, and leave it again.  The handles
\* are the connections' numbers; the frames are left out.
MaxSizeInput == 256
WideSizeInputs == {None} \cup {Some(z) : z \in 0..MaxSizeInput}

\* handle_create_room on the registry: the size test, Room::new, push,
\* insert
Open(size) ==
    /\ rooms = <<>>
    /\ ~SizeInvalid(UnwrapOr(size, DEFAULT_ROOM_SIZE))
    /\ rooms' = MapInsert(rooms, 1,
                          Push(RoomNew(UnwrapOr(size, DEFAULT_ROOM_SIZE)), 1))
    /\ UNCHANGED <<lock, room_id, pc, msg, futures>>

\* handle_join_room on the registry, for the next connection: the capacity
\* test and the push
Enter ==
    /\ 1 \in DOMAIN rooms
    /\ ~RoomFull(rooms[1])
    /\ rooms' = [rooms EXCEPT ![1] = Push(@, Len(@.senders) + 1)]
    /\ UNCHANGED <<lock, room_id, pc, msg, futures>>

\* handle_leave_room on the registry, for the connection that joined last
Exit ==
    /\ 1 \in DOMAIN rooms
    /\ LET senders == Remove(rooms[1].senders, Len(rooms[1].senders) - 1)
           removed == [rooms EXCEPT ![1].senders = senders]
       IN  rooms' = IF senders = <<>> THEN MapRemove(removed, 1) ELSE removed
    /\ UNCHANGED <<lock, room_id, pc, msg, futures>>

IndexNext ==
    \/ \E size \in WideSizeInputs : Open(size)
    \/ Enter
    \/ Exit

IndexSpec == Init /\ [][IndexNext]_vars

\* ------------------------------------------------------------- claims
\* The places (room, one-based position) at which a peer handle is stored.
Places(s) ==
    UNION {{<<r, i>> : i \in {j \in 1..Len(rooms[r].senders) :
                                rooms[r].senders[j] = s}} :
           r \in DOMAIN rooms}

\* The rooms of the registry whose peer list holds the handle.
RoomsOf(s) == {p[1] : p \in Places(s)}

\* C1: in every reachable state each peer handle is held by at most one room
\* of the registry, and at most once in that room's peer list.
C1_AtMostOnePlace == \A s \in Peers : Cardinality(Places(s)) <= 1

\* Two rooms exist at once, one of them with two peers, after a session that
\* is a member has been handed a further create or join request.
C1_Witness ==
    /\ Cardinality(DOMAIN rooms) = 2
    /\ \E r \in DOMAIN rooms : Len(rooms[r].senders) = 2
    /\ \E s \in Peers :
        /\ RoomsOf(s) # {}
        /\ pc[s] = "crit"
        /\ msg[s].type \in {"create", "join"}

\* C2: in every reachable state every room of the registry has a capacity
\* with 0 < capacity < 255 and an occupancy with 1 <= occupancy <= capacity.
C2_RoomBounds ==
    \A r \in DOMAIN rooms :
        /\ 0 < rooms[r].size
        /\ rooms[r].size < 255
        /\ 1 <= Len(rooms[r].senders)
        /\ Len(rooms[r].senders) <= rooms[r].size

\* A full room is asked for one more join.
C2_Witness ==
    \E s \in Peers :
        /\ pc[s] = "crit"
        /\ msg[s].type = "join"
        /\ RoomsOf(s) = {}
        /\ msg[s].id \in DOMAIN rooms
        /\ Len(rooms[msg[s].id].senders) = rooms[msg[s].id].size

\* C3: for every session, in every reachable state, room_id is Some(r) if and
\* only if room r exists in the registry and contains the session's handle.
C3_RoomIdIffMember ==
    \A s \in Peers : \A r \in RoomIds :
        (room_id[s] = Some(r)) <=> (r \in RoomsOf(s))

\* The future of the sink write that the step completes (the futures of a
\* handler never hold the same write twice).
Completed(s) ==
    {f \in {futures[s][i] : i \in 1..Len(futures[s])} :
        \E i \in 1..Len(futures[s]) :
            /\ futures[s][i] = f
            /\ futures'[s] = Remove(futures[s], i - 1)}

\* C4: room isolation.  A binary frame a peer sent as a member of room A is
\* never written to the sink of a peer that is, at that moment, a member of
\* a different room B.
C4_RoomIsolation ==
    [][\A s \in Peers :
        pc[s] = "send" /\ room_id[s] # None =>
            \A f \in Completed(s) :
                f.frame.type = "binary" =>
                    RoomsOf(f.to) \subseteq {Unwrap(room_id[s])}]_vars

\* ---------------------------------------------- the steps of a handler
\* The step in which session s runs the critical section of a handler.
Handles(s, types) ==
    pc[s] = "crit" /\ msg[s].type \in types /\ pc'[s] # "crit"

\* The room a member is in, its peer list there and its zero-based index.
RoomOf(s) == CHOOSE r \in RoomsOf(s) : TRUE
PeersOf(s) == rooms[RoomOf(s)].senders
IndexOf(s) == (CHOOSE p \in Places(s) : TRUE)[2] - 1

\* The peers of a list, and the futures of a list of futures bound for p.
Listed(list) == {list[i] : i \in 1..Len(list)}
BoundFor(f, p) == {i \in 1..Len(f) : f[i].to = p}

\* f holds exactly one future for peer p, and it carries the frame.
ExactlyOne(f, p, frame) ==
    /\ Cardinality(BoundFor(f, p)) = 1
    /\ \A i \in BoundFor(f, p) : f[i].frame = frame

\* Nothing of the other sessions changes in the step.
OthersUntouched(s) ==
    \A t \in Peers \ {s} :
        /\ pc'[t] = pc[t]
        /\ msg'[t] = msg[t]
        /\ futures'[t] = futures[t]
        /\ room_id'[t] = room_id[t]

\* A session that is writing completes exactly one of its futures per step,
\* and a session that is not writing completes none.
WritesOneByOne(s) ==
    /\ pc[s] = "send" /\ futures'[s] # futures[s] =>
        /\ Len(futures'[s]) = Len(futures[s]) - 1
        /\ Completed(s) # {}
    /\ pc[s] \in {"read", "joined", "closed"} => futures'[s] = futures[s]

\* C5: a successful join into a room of occupancy k >= 1 emits exactly k+1
\* join frames: one to the joiner carrying size = k, its position in the peer
\* list after insertion, and one without size to each of the k peers already
\* there; no other peer gets a frame for this join.
C5_JoinFrames ==
    [][\A s \in Peers :
        /\ WritesOneByOne(s)
        /\ (/\ Handles(s, {"join"})
            /\ msg[s].id \in DOMAIN rooms'
            /\ s \notin Listed(rooms[msg[s].id].senders)
            /\ s \in Listed(rooms'[msg[s].id].senders))
           => LET old == rooms[msg[s].id].senders
                  new == rooms'[msg[s].id].senders
                  k == Len(old)
                  f == futures'[s]
              IN  /\ k >= 1
                  /\ Len(new) = k + 1
                  /\ new[k + 1] = s
                  /\ \A j \in 1..k : new[j] = old[j]
                  /\ Len(f) = k + 1
                  /\ ExactlyOne(f, s, [type |-> "join", size |-> <<k>>])
                  /\ \A j \in 1..k :
                        ExactlyOne(f, old[j], [type |-> "join", size |-> <<>>])
                  /\ \A q \in Peers \ (Listed(old) \cup {s}) :
                        BoundFor(f, q) = {}
                  /\ OthersUntouched(s)]_vars

\* A peer has joined a room of two and its three join frames are pending.
C5_Witness ==
    \E s \in Peers :
        /\ pc[s] = "joined"
        /\ msg[s].type = "join"
        /\ Len(futures[s]) = 3
        /\ \E i \in 1..3 : futures[s][i] =
              [to |-> s, frame |-> [type |-> "join", size |-> <<2>>]]

\* The registry apart from room r is the same after the step.
OtherRoomsSame(r) ==
    /\ DOMAIN rooms' \ {r} = DOMAIN rooms \ {r}
    /\ \A x \in DOMAIN rooms \ {r} : rooms'[x] = rooms[x]

\* C6: when the member at index i of a room leaves (leave request or close),
\* it is removed from the peer list, the remaining peers keep their order
\* (those above i move down by one), exactly one leave{index = i} frame goes
\* to each remaining peer and none to the departing one, and a room left
\* empty is deleted, so that a join with its id is answered "The room does
\* not exist.".
C6_LeaveEffect ==
    [][\A s \in Peers :
        /\ WritesOneByOne(s)
        /\ (Handles(s, {"leave", "close"}) /\ RoomsOf(s) # {})
           => LET r == RoomOf(s)
                  old == PeersOf(s)
                  i == IndexOf(s)
                  n == Len(old)
                  f == futures'[s]
              IN  /\ IF n = 1
                     THEN r \notin DOMAIN rooms'
                     ELSE /\ r \in DOMAIN rooms'
                          /\ rooms'[r].size = rooms[r].size
                          /\ Len(rooms'[r].senders) = n - 1
                          /\ \A j \in 1..(n - 1) :
                               rooms'[r].senders[j] =
                                  IF j <= i THEN old[j] ELSE old[j + 1]
                  /\ OtherRoomsSame(r)
                  /\ room_id'[s] = <<>>
                  /\ Len(f) = n - 1
                  /\ \A q \in Listed(old) \ {s} :
                        ExactlyOne(f, q, [type |-> "leave", index |-> i])
                  /\ BoundFor(f, s) = {}
                  /\ OthersUntouched(s)
        /\ (Handles(s, {"join"}) /\ RoomsOf(s) = {}
                /\ msg[s].id \notin DOMAIN rooms)
           => futures'[s] =
                <<[to |-> s, frame |-> [type |-> "error",
                       message |-> "The room does not exist."]]>>]_vars

\* The middle peer of a room of three has left: the two others are each owed
\* a leave frame with index 1, and the peer that was above it is now at 1.
C6_Witness ==
    \E s \in Peers : \E r \in DOMAIN rooms :
        /\ pc[s] = "send"
        /\ msg[s].type \in {"leave", "close"}
        /\ Len(futures[s]) = 2
        /\ Len(rooms[r].senders) = 2
        /\ \A j \in 1..2 :
              futures[s][j] = [to |-> rooms[r].senders[j],
                               frame |-> [type |-> "leave", index |-> 1]]

\* C7: unicast.  When the member at index i of a room of occupancy n sends a
\* non-empty binary frame whose first byte d is below n, exactly one frame is
\* delivered, to the peer at index d (the sender itself when d = i), with
\* first byte i and the remaining bytes as sent.
C7_Unicast ==
    [][\A s \in Peers :
        /\ WritesOneByOne(s)
        /\ (/\ Handles(s, {"binary"})
            /\ RoomsOf(s) # {}
            /\ msg[s].data # <<>>
            /\ msg[s].data[1] < Len(PeersOf(s)))
           => /\ futures'[s] =
                   <<[to |-> PeersOf(s)[msg[s].data[1] + 1],
                      frame |-> [type |-> "binary",
                                 data |-> <<IndexOf(s)>> \o Tail(msg[s].data)]]>>
              /\ pc'[s] = "send"
              /\ OthersUntouched(s)]_vars

\* A unicast to another peer is pending with the address byte rewritten from
\* the destination's index to the sender's.
C7_Witness ==
    \E s \in Peers :
        /\ pc[s] = "send"
        /\ msg[s].type = "binary"
        /\ msg[s].data[1] # U8_MAX
        /\ Len(futures[s]) = 1
        /\ futures[s][1].to # s
        /\ futures[s][1].frame.data[1] # msg[s].data[1]
        /\ Tail(futures[s][1].frame.data) = <<PayloadByte>>

\* C8: broadcast.  When the member at index i of a room sends a non-empty
\* binary frame whose first byte is 255, every other member gets exactly one
\* copy with first byte i and the remaining bytes as sent, and the sender
\* gets nothing (nothing at all is delivered in a room of one).
C8_Broadcast ==
    [][\A s \in Peers :
        /\ WritesOneByOne(s)
        /\ (/\ Handles(s, {"binary"})
            /\ RoomsOf(s) # {}
            /\ msg[s].data # <<>>
            /\ msg[s].data[1] = 255)
           => LET f == futures'[s]
                  copy == [type |-> "binary",
                           data |-> <<IndexOf(s)>> \o Tail(msg[s].data)]
              IN  /\ Len(f) = Len(PeersOf(s)) - 1
                  /\ \A q \in Listed(PeersOf(s)) \ {s} : ExactlyOne(f, q, copy)
                  /\ BoundFor(f, s) = {}
                  /\ Len(PeersOf(s)) = 1 => pc'[s] = "read"
                  /\ OthersUntouched(s)]_vars

\* A broadcast in a room of three: two copies are pending, none for the
\* sender.
C8_Witness ==
    \E s \in Peers :
        /\ pc[s] = "send"
        /\ msg[s].type = "binary"
        /\ msg[s].data[1] = 255
        /\ Len(futures[s]) = 2
        /\ \A j \in 1..2 : futures[s][j].to # s

\* The frame a rejected request is answered with.
ErrorTo(s, message) ==
    <<[to |-> s, frame |-> [type |-> "error", message |-> message]]>>

\* C9: a join from a peer that is in no room is rejected with exactly one
\* error frame to the requester, "The room does not exist." when the id is
\* no key of the registry and "The room is full." when the occupancy equals
\* the capacity; the registry, the requester's room_id and every other
\* session stay as they are and no other peer gets a frame.
C9_JoinRejected ==
    [][\A s \in Peers :
        /\ WritesOneByOne(s)
        /\ (Handles(s, {"join"}) /\ RoomsOf(s) = {})
           => /\ msg[s].id \notin DOMAIN rooms =>
                    /\ futures'[s] = ErrorTo(s, "The room does not exist.")
                    /\ rooms' = rooms
                    /\ room_id' = room_id
                    /\ OthersUntouched(s)
              /\ (/\ msg[s].id \in DOMAIN rooms
                  /\ Len(rooms[msg[s].id].senders) = rooms[msg[s].id].size) =>
                    /\ futures'[s] = ErrorTo(s, "The room is full.")
                    /\ rooms' = rooms
                    /\ room_id' = room_id
                    /\ OthersUntouched(s)]_vars

\* A join into a full room has been answered: the error frame is pending and
\* the room still holds exactly its capacity.
C9_Witness ==
    \E s \in Peers :
        /\ pc[s] = "send"
        /\ msg[s].type = "join"
        /\ futures[s] = ErrorTo(s, "The room is full.")
        /\ msg[s].id \in DOMAIN rooms
        /\ Len(rooms[msg[s].id].senders) = rooms[msg[s].id].size
        /\ room_id[s] = <<>>

\* The sizes a create request is refused for.
BadSize(m) == m.size # <<>> /\ (m.size[1] = 0 \/ m.size[1] >= 255)

\* C10 as stated: every create request whose size is 0 or >= 255, in
\* whatever state the requesting session is, is answered with exactly one
\* error frame "The room size is not valid" to the requester and leaves the
\* registry and the session's room_id unchanged.
C10_BadSizeAlwaysRejected ==
    [][\A s \in Peers :
        (Handles(s, {"create"}) /\ BadSize(msg[s]))
           => /\ futures'[s] = ErrorTo(s, "The room size is not valid")
              /\ rooms' = rooms
              /\ room_id' = room_id]_vars

\* C10 as amended: the same of a create request from a peer that is in no
\* room.
C10_BadSizeRejected ==
    [][\A s \in Peers :
        /\ WritesOneByOne(s)
        /\ (Handles(s, {"create"}) /\ BadSize(msg[s]) /\ RoomsOf(s) = {})
           => /\ futures'[s] = ErrorTo(s, "The room size is not valid")
              /\ rooms' = rooms
              /\ room_id' = room_id
              /\ OthersUntouched(s)]_vars

\* A create with size 255 has been answered with the error frame.
C10_Witness ==
    \E s \in Peers :
        /\ pc[s] = "send"
        /\ msg[s].type = "create"
        /\ msg[s].size = <<255>>
        /\ futures[s] = ErrorTo(s, "The room size is not valid")
        /\ room_id[s] = <<>>

\* C11: a create or a join request handled for a peer that is a member of a
\* room, whatever the size or the identifier it carries, emits no frame to
\* anyone and changes neither the registry nor any session's room_id; the
\* handler returns to the read loop.
C11_MemberRequestSilent ==
    [][\A s \in Peers :
        (Handles(s, {"create", "join"}) /\ RoomsOf(s) # {})
           => /\ futures' = futures
              /\ futures[s] = <<>>
              /\ rooms' = rooms
              /\ room_id' = room_id
              /\ pc'[s] = "read"
              /\ OthersUntouched(s)]_vars

\* A member that is not the first of its room is about to have a request
\* handled that would be answered were it in no room: a create of valid
\* size, or a join naming another room that has a free slot.
C11_Witness ==
    \E s \in Peers :
        /\ pc[s] = "crit"
        /\ RoomsOf(s) # {}
        /\ IndexOf(s) > 0
        /\ \/ msg[s].type = "create" /\ ~BadSize(msg[s])
           \/ /\ msg[s].type = "join"
              /\ msg[s].id \in DOMAIN rooms \ RoomsOf(s)
              /\ Len(rooms[msg[s].id].senders) < rooms[msg[s].id].size

\* The step's effect when a create from s succeeds under the identifier id:
\* one room is added under a key that was none before, of the requested
\* capacity (2 when the size is absent) and holding s alone at index 0; s's
\* room_id is set; exactly one create frame carrying id is bound for s and
\* none for anyone else; every other room is unchanged.
Created(s, id) ==
    /\ id \notin DOMAIN rooms
    /\ DOMAIN rooms' = DOMAIN rooms \cup {id}
    /\ rooms'[id] = [size |-> IF msg[s].size = <<>> THEN 2 ELSE msg[s].size[1],
                     senders |-> <<s>>]
    /\ \A r \in DOMAIN rooms : rooms'[r] = rooms[r]
    /\ room_id' = [room_id EXCEPT ![s] = <<id>>]
    /\ futures'[s] = <<[to |-> s, frame |-> [type |-> "create", id |-> id]]>>
    /\ OthersUntouched(s)

\* C12 as stated: a create request with an absent size or a size s with
\* 0 < s < 255, handled for a peer that is in no room, adds exactly one new
\* room under an identifier that was no key before, with the creator alone
\* at index 0, sets the session's room_id, sends exactly one create frame to
\* the creator and none to anyone else, and leaves every other room
\* unchanged.
C12_CreateAlwaysAdds ==
    [][\A s \in Peers :
        (Handles(s, {"create"}) /\ ~BadSize(msg[s]) /\ RoomsOf(s) = {})
           => \E id \in RoomIds : Created(s, id)]_vars

\* C12 as amended: the same, unless the identifier drawn is already a key of
\* the registry; then the one frame sent is the error "A room with that
\* identifier already exists." to the requester and nothing changes.
C12_CreateAdds ==
    [][\A s \in Peers :
        /\ WritesOneByOne(s)
        /\ (Handles(s, {"create"}) /\ ~BadSize(msg[s]) /\ RoomsOf(s) = {})
           => \/ \E id \in RoomIds : Created(s, id)
              \/ /\ DOMAIN rooms # {}
                 /\ futures'[s] =
                      ErrorTo(s, "A room with that identifier already exists.")
                 /\ rooms' = rooms
                 /\ room_id' = room_id
                 /\ OthersUntouched(s)]_vars

\* A room of capacity 254 has just been created beside an existing room: its
\* creator is alone in it and the create frame is still to be written.
C12_Witness ==
    \E s \in Peers : \E id \in DOMAIN rooms :
        /\ pc[s] = "send"
        /\ msg[s] = [type |-> "create", size |-> <<254>>]
        /\ rooms[id] = [size |-> 254, senders |-> <<s>>]
        /\ room_id[s] = <<id>>
        /\ futures[s] = <<[to |-> s, frame |-> [type |-> "create", id |-> id]]>>
        /\ DOMAIN rooms # {id}

\* C13: the leave effect happens exactly once for a membership and has
\* happened by the time the session has terminated.  A peer is taken out of
\* a room only by the leave or close step of its own session, and in that
\* step exactly one leave frame is bound for each remaining peer; a leave or
\* a close handled for a peer that is in no room (after an explicit leave,
\* or never having joined) emits no frame and changes nothing; and once
\* handle_close has returned the handle is in no room, the session's room_id
\* is None and none of its writes is pending.
C13_LeaveOnce ==
    /\ [](\A s \in Peers :
            pc[s] = "closed"
               => RoomsOf(s) = {} /\ room_id[s] = <<>> /\ futures[s] = <<>>)
    /\ [][\A s \in Peers :
            /\ WritesOneByOne(s)
            /\ pc[s] = "closed" => pc'[s] = "closed"
            /\ (RoomsOf(s) # {} /\ RoomOf(s) \notin {p[1] : p \in Places(s)'})
                  => /\ Handles(s, {"leave", "close"})
                     /\ Len(futures'[s]) = Len(PeersOf(s)) - 1
                     /\ \A p \in Listed(PeersOf(s)) \ {s} :
                           ExactlyOne(futures'[s], p,
                                      [type |-> "leave", index |-> IndexOf(s)])
            /\ (Handles(s, {"leave", "close"}) /\ RoomsOf(s) = {})
                  => /\ futures' = futures
                     /\ futures[s] = <<>>
                     /\ rooms' = rooms
                     /\ room_id' = room_id
                     /\ OthersUntouched(s)]_vars

\* One session has terminated; another, closed while it was in a room with
\* the third peer, has been taken out of that room by handle_close and has
\* the one leave frame for the remaining peer still to write.
C13_Witness ==
    \E s, t, u \in Peers :
        /\ pc[t] = "closed"
        /\ pc[s] = "send"
        /\ msg[s].type = "close"
        /\ RoomsOf(s) = {}
        /\ room_id[s] = <<>>
        /\ RoomsOf(u) # {}
        /\ \E i \in 0..1 :
              futures[s] = <<[to |-> u, frame |-> [type |-> "leave", index |-> i]]>>

\* The sessions holding the registry lock, as writer or as reader.
Holders == lock.readers \cup {s \in Peers : lock.writer = <<s>>}

\* C14: in no reachable state does a session hold the registry lock, read
\* or write, while it writes a frame or waits to write one: whenever a
\* session has sink writes pending, on the success path or on an error
\* path, its guard has been dropped.  The holders of the lock are sessions
\* inside a handler's critical section; a writer excludes every other
\* holder.
C14_NoLockWhileWriting ==
    /\ \A s \in Peers :
          (futures[s] # <<>> \/ pc[s] \in {"joined", "send"}) => s \notin Holders
    /\ \A s \in Holders : pc[s] = "crit"
    /\ lock.writer # <<>> => Cardinality(Holders) = 1

\* A session has the error frame of a rejected request still to write while
\* another session holds the write lock.
C14_Witness ==
    \E s, u \in Peers :
        /\ pc[s] = "send"
        /\ futures[s] \in {ErrorTo(s, "The room is full."),
                           ErrorTo(s, "The room does not exist."),
                           ErrorTo(s, "The room size is not valid")}
        /\ lock.writer = <<u>>
        /\ pc[u] = "crit"

\* The inbound frames and events a handler is run for.
Handled == {"create", "join", "leave", "binary", "close"}

\* C15: the frames that S's session causes to be written to R's sink are
\* written in the order in which S's session received the inbound frames
\* that caused them.  The writes pending in S's session are those of the one
\* inbound frame it is handling: a handler starts with none pending, S's
\* session takes its next inbound frame only when every write of the
\* previous one has completed, writes complete one at a time and only the
\* handler's own step adds any; and one inbound frame causes at most one
\* write to any one sink, so no two frames of S for R can be reordered.
C15_PairFifo ==
    /\ [](\A s, r \in Peers : Cardinality(BoundFor(futures[s], r)) <= 1)
    /\ [][\A s \in Peers :
            /\ WritesOneByOne(s)
            /\ (pc[s] = "read" /\ pc'[s] # "read") => futures[s] = <<>>
            /\ msg'[s] \notin {msg[s], [type |-> "none"]} => futures[s] = <<>>
            /\ Handles(s, Handled) => futures[s] = <<>>
            /\ futures'[s] # futures[s]
                  => Handles(s, Handled) \/ pc[s] = "send"]_vars

\* Two sessions each have a binary frame pending for the same third peer's
\* sink, one of them as part of a broadcast that also addresses the other.
C15_Witness ==
    \E s, t, r \in Peers :
        /\ s # t
        /\ pc[s] = "send" /\ msg[s].type = "binary"
        /\ pc[t] = "send" /\ msg[t].type = "binary"
        /\ BoundFor(futures[s], r) # {}
        /\ BoundFor(futures[t], r) # {}
        /\ BoundFor(futures[s], t) # {}

\* C16: a slow client cannot block the room operations of the other peers.
\* With the writes to one peer's sink never completing, every create, join
\* and leave request that the session of another peer has received is
\* eventually applied to the registry: the session gets the lock and its
\* handler's critical section runs.
C16_SlowSinkNoBlock ==
    \A s \in Peers \ {SlowPeer} :
        (pc[s] = "wait" /\ msg[s].type \in {"create", "join", "leave"})
            ~> (pc[s] \notin {"wait", "crit"})

\* A session is stuck with only writes to the slow peer's sink left to do
\* while the session of another peer, a room request in hand, waits for the
\* registry lock.
C16_Witness ==
    \E s, t \in Peers \ {SlowPeer} :
        /\ pc[s] = "send"
        /\ \A i \in 1..Len(futures[s]) : futures[s][i].to = SlowPeer
        /\ pc[t] = "wait"
        /\ msg[t].type \in {"create", "join", "leave"}

\* The binary frame s's session is handling is one to drop: s is in no room,
\* or the payload is empty, or its first byte is neither an index of the
\* room (it is >= the occupancy) nor 255.
ToDrop(s) ==
    \/ RoomsOf(s) = {}
    \/ msg[s].data = <<>>
    \/ msg[s].data[1] >= Len(PeersOf(s)) /\ msg[s].data[1] # 255

\* C17: a binary frame is dropped without any delivery when the sender is in
\* no room, when the payload is empty, or when its first byte d is >= the
\* room's occupancy and is not 255: no frame is bound for anyone, nothing
\* changes, and the session is back at its read loop to handle later frames.
C17_BinaryDropped ==
    [][\A s \in Peers :
        (Handles(s, {"binary"}) /\ ToDrop(s))
           => /\ futures' = futures
              /\ futures[s] = <<>>
              /\ rooms' = rooms
              /\ room_id' = room_id
              /\ pc'[s] = "read"
              /\ msg'[s] = [type |-> "none"]
              /\ OthersUntouched(s)]_vars

\* A member of a room of two is about to have a binary frame handled whose
\* first byte is 2 or 3, beyond the last index and not the broadcast
\* address.
C17_Witness ==
    \E s \in Peers :
        /\ pc[s] = "crit"
        /\ msg[s].type = "binary"
        /\ RoomsOf(s) # {}
        /\ Len(PeersOf(s)) = 2
        /\ msg[s].data # <<>>
        /\ msg[s].data[1] \in {2, 3}

\* C18: concurrent joins are atomic with respect to capacity and indices.
\* Between a join handler's taking the write guard and its step, no other
\* session changes the registry; the step of a join into a room with f free
\* slots appends the joiner after the peers already there when f > 0, and
\* the index it is told is its position in the list, which no other peer
\* of the room occupies; when f = 0 the joiner is sent "The room is full."
\* and is not inserted.  So the occupancy never exceeds the capacity: of
\* the joiners contending for f free slots at most f succeed.
C18_JoinsAtomic ==
    /\ [](\A r \in DOMAIN rooms : Len(rooms[r].senders) <= rooms[r].size)
    /\ [][\A s \in Peers :
            /\ (pc[s] = "crit" /\ msg[s].type = "join" /\ pc'[s] = "crit")
                  => rooms' = rooms
            /\ (Handles(s, {"join"}) /\ RoomsOf(s) = {}
                  /\ msg[s].id \in DOMAIN rooms)
                  => LET r == msg[s].id
                         before == rooms[r].senders
                     IN  IF Len(before) < rooms[r].size
                         THEN /\ rooms' = [rooms EXCEPT
                                             ![r].senders = Append(before, s)]
                              /\ ExactlyOne(futures'[s], s,
                                            [type |-> "join",
                                             size |-> <<Len(before)>>])
                              /\ rooms'[r].senders[Len(before) + 1] = s
                              /\ \A i \in 1..Len(before) : before[i] # s
                         ELSE /\ futures'[s] = ErrorTo(s, "The room is full.")
                              /\ rooms' = rooms]_vars

\* Two peers contend for the one free slot of a room of capacity 2: the
\* first has been appended at index 1 and has its frames still to write,
\* the second holds the write guard with its join for the same room, now
\* full.
C18_Witness ==
    \E s, t \in Peers : \E r \in DOMAIN rooms :
        /\ s # t
        /\ rooms[r].size = 2
        /\ Len(rooms[r].senders) = 2
        /\ rooms[r].senders[2] = s
        /\ pc[s] \in {"joined", "send"}
        /\ msg[s] = [type |-> "join", id |-> r]
        /\ BoundFor(futures[s], s) # {}
        /\ pc[t] = "crit"
        /\ msg[t] = [type |-> "join", id |-> r]
        /\ RoomsOf(t) = {}

\* Session s completes one of its pending sink writes in this step.
Writes(s) == pc[s] = "send" /\ futures'[s] # futures[s]

\* C19: handling a binary frame, whether it is forwarded, broadcast or
\* dropped, leaves the registry and every session's room_id unchanged: so
\* does the handler's step under the read guard, and so does each of the
\* sink writes it then makes, successful or failed.
C19_BinaryReadOnly ==
    [][\A s \in Peers :
        (Handles(s, {"binary"}) \/ (Writes(s) /\ msg[s].type = "binary"))
           => rooms' = rooms /\ room_id' = room_id]_vars

\* A member has had a binary frame addressed to another peer of its room
\* handled and has the forwarded copy, its first byte rewritten, still to
\* write.
C19_Witness ==
    \E s, t \in Peers :
        /\ s # t
        /\ pc[s] = "send"
        /\ msg[s].type = "binary"
        /\ msg[s].data[1] # 255
        /\ RoomsOf(s) # {}
        /\ RoomsOf(t) = RoomsOf(s)
        /\ futures[s] = <<[to |-> t,
                           frame |-> [type |-> "binary",
                                      data |-> <<IndexOf(s), 170>>]]>>

\* C20: a failed write to a peer's sink during a notification burst, a
\* broadcast or a unicast changes no state.  Every sink write of a session,
\* successful or failed, takes just that write off the pending ones, so the
\* remaining deliveries of the burst are still to be attempted and no error
\* frame is added for the triggering session; it leaves the registry and
\* every room_id as they are, so the peer behind the sink stays in its room
\* at the same index; the triggering session goes on (it terminates only as
\* the end of its own close handling) and no other session is affected.  A
\* peer is taken out of a room only by its own session's step for its close
\* (or its leave request).
C20_FailedWriteHarmless ==
    [][\A s \in Peers :
        /\ Writes(s)
              => /\ Completed(s) # {}
                 /\ rooms' = rooms
                 /\ room_id' = room_id
                 /\ lock' = lock
                 /\ pc'[s] = IF futures'[s] # <<>> THEN "send"
                             ELSE IF msg[s].type = "close" THEN "closed"
                             ELSE "read"
                 /\ OthersUntouched(s)
        /\ (RoomsOf(s) # {} /\ RoomsOf(s)' # RoomsOf(s))
              => Handles(s, {"leave", "close"})]_vars

\* A burst of two leave frames is half done: the leaver has one of them
\* still to write, to a peer that is still listed in the room of two it
\* left.
C20_Witness ==
    \E s, t \in Peers : \E r \in DOMAIN rooms :
        /\ pc[s] = "send"
        /\ msg[s].type \in {"leave", "close"}
        /\ RoomsOf(s) = {}
        /\ Len(rooms[r].senders) = 2
        /\ t \in Listed(rooms[r].senders)
        /\ Len(futures[s]) = 1
        /\ futures[s][1].to = t
        /\ futures[s][1].frame.type = "leave"

\* Session s completes, in this step, a write to its own sink that failed:
\* the step Send takes for the outcome Err of a future bound for s itself.
FailedOwnWrite(s) ==
    /\ pc[s] = "send"
    /\ \E i \in 1..Len(futures[s]) :
          /\ futures[s][i].to = s
          /\ futures'[s] = JoinAll(futures[s], i - 1, FALSE)
          /\ rooms' = SendResult(rooms, s, FALSE)

\* C21: from any session state, a fatal write error on the session's own
\* connection moves the session to Closed in the same way as a transport
\* closure (its close handling is entered, or has just returned), and a
\* session that has entered Closed has performed the leave for its peer:
\* it is in no room.
C21_WriteErrorCloses ==
    /\ [](\A s \in Peers : pc[s] = "closed" => RoomsOf(s) = {})
    /\ [][\A s \in Peers :
            FailedOwnWrite(s)
               => msg'[s].type = "close" \/ pc'[s] = "closed"]_vars

\* The sessions that have a join or leave frame for r's sink still to write.
Notifying(r) ==
    {s \in Peers :
        \E i \in BoundFor(futures[s], r) :
            futures[s][i].frame.type \in {"join", "leave"}}

\* C22: each peer receives the join and leave notifications of its room in
\* the order in which the insertions and removals were applied to the
\* registry.  A handler builds its notifications in the step that applies
\* its change, and the pending writes of different sessions complete in any
\* order, so the order is kept exactly when no two sessions have
\* notifications for the same sink pending at once.
C22_NotificationsInOrder ==
    \A r \in Peers : Cardinality(Notifying(r)) <= 1

\* The acknowledgement of j's successful join, join{size}, is still to be
\* written to j's own sink.
AckPending(j) ==
    \E i \in BoundFor(futures[j], j) :
        /\ futures[j][i].frame.type = "join"
        /\ futures[j][i].frame.size # <<>>

\* C23: after a successful join the joiner's own join{size} frame is the
\* first frame it receives from that room: while that frame is still to be
\* written, no other session writes to the joiner's sink a frame from that
\* room, be it a data frame or a join notification from a member of the
\* room or the leave notification of a peer that left it.
C23_OwnJoinFirst ==
    [][\A j, t \in Peers :
        (t # j /\ AckPending(j) /\ Writes(t))
           => \A f \in Completed(t) :
                 f.to = j
                    => ~(RoomsOf(t) = RoomsOf(j) \/ f.frame.type = "leave")]_vars

\* C24: no deadlock and per-request termination.  With fair scheduling and
\* every sink write completing or failing in the end, every inbound frame or
\* close event a session has taken is handled completely: the session gets
\* the registry lock, releases it, has all its outbound frames written or
\* failed, and is back at its read loop (or, after its close, terminated)
\* holding no lock.  As long as some session is not yet done, a step of
\* some session is possible.
C24_RequestsTerminate ==
    /\ \A s \in Peers :
          (pc[s] = "wait")
             ~> (pc[s] \in {"read", "closed"} /\ futures[s] = <<>>
                   /\ s \notin Holders)
    /\ []((\E s \in Peers : pc[s] \in {"wait", "crit", "joined", "send"})
             => ENABLED (\E s \in Peers :
                           Acquire(s) \/ Handle(s) \/ SetRoomId(s) \/ Send(s)))

\* A session waits in the queue of the lock with a join in hand while
\* another, which has left a room of three, has one of its two leave frames
\* still to write; the lock itself is free for the waiter to take.
C24_Witness ==
    \E s, u \in Peers :
        /\ pc[s] = "wait" /\ msg[s].type = "join"
        /\ lock.queue = <<s>>
        /\ lock.writer = <<>> /\ lock.readers = {}
        /\ pc[u] = "send" /\ msg[u].type = "leave"
        /\ Len(futures[u]) = 1
        /\ \E r \in DOMAIN rooms : Len(rooms[r].senders) = 2

\* C25: in every reachable state every peer's room index is at most 253:
\* the conversion of the index to the one-byte source address does not
\* fail, and the first byte of the frame rewritten with it is not 255, the
\* broadcast address.
C25_IndexFitsByte ==
    \A r \in DOMAIN rooms :
        \A i \in 1..Len(rooms[r].senders) :
            LET index == i - 1 IN
            /\ index <= 253
            /\ U8TryFrom(index) # <<>>
            /\ Rewrite(<<0, PayloadByte>>, U8TryFrom(index)[1])[1] # 255

\* A room of the greatest size that is accepted, 254, is full: its last
\* peer sits at index 253.
C25_Witness ==
    \E r \in DOMAIN rooms :
        /\ rooms[r].size = 254
        /\ Len(rooms[r].senders) = 254

==========================================================================
